---- MODULE Spec2Model ----
(***************************************************************************)
(* LMSR binary-outcome market maker (src/AMM/LMSR): the three engine       *)
(* variants lmsr.py (fees, buy and sell, resolve), fixed_cap.py (buy only) *)
(* and strict_profit.py (inventory-skew pricing, directional limit).       *)
(*                                                                         *)
(* Numbers.  The source computes in IEEE doubles; the model computes in    *)
(* fixed point.  Shares and money are integers counting 1/U of a share or  *)
(* of a dollar; ratios, prices, fee rates and the arguments and results of *)
(* math.exp / math.log are integers counting 1/S.  Every product and       *)
(* quotient truncates (floor) the way \div does, so a computed value is    *)
(* within a few units of the real one, as a double is within a few ulps.   *)
(***************************************************************************)
EXTENDS Integers, Sequences, FiniteSets, TLC

\* ---------------------------------------------------------------- bounds
S == 10000            \* fixed-point scale of ratios (1.0 = S)
U == 1000             \* units per share and per dollar (1.0 = U)
RiskCap == 100000     \* risk_cap_ passed to the constructor: 100.000 dollars
MaxCalls == 3         \* calls made on one market
HighCap == 134217728  \* saturation of a bracket bound that never meets its target

\* ------------------------------------------------------------ arithmetic
Max(a, c) == IF a >= c THEN a ELSE c
Min(a, c) == IF a <= c THEN a ELSE c
Abs(a) == IF a >= 0 THEN a ELSE -a

\* a * f where f is a ratio: floor(a * f / S) without leaving 32 bits
MulS(a, f) == (a \div S) * f + (a % S) * (f \div S) + ((a % S) * (f % S)) \div S

\* a / d as a ratio: floor(a * S / d) without leaving 32 bits (the fraction
\* by long division, two decimal digits at a time: S = 100 * 100)
DivS(a, d) ==
  LET r == a % d
      r1 == (r * 100) % d
  IN  (a \div d) * S + ((r * 100) \div d) * 100 + (r1 * 100) \div d

\* a / d as a ratio, saturated at +-SatRatio (only used where the result is
\* clamped or compared with a small threshold afterwards)
SatRatio == 10000
DivSat(a, d) ==
  IF a \div d >= SatRatio THEN SatRatio * S
  ELSE IF a \div d < -SatRatio THEN -SatRatio * S
  ELSE DivS(a, d)

LN2 == 6931           \* math.log(2)
E1 == 27183           \* math.exp(1)
EPowNeg == <<3679, 1353, 498, 183, 67, 25, 9, 3, 1>>   \* math.exp(-k), k = 1..9

RECURSIVE ExpSeries(_, _, _)
ExpSeries(r, k, acc) ==
  IF k = 0 THEN acc ELSE ExpSeries(r, k - 1, S + (r * acc) \div (k * S))

RECURSIVE EPowPos(_)
EPowPos(n) == IF n = 0 THEN S ELSE MulS(EPowPos(n - 1), E1)

\* math.exp(z / S) * S: integer part from the powers of e, fraction by Taylor
Exp(z) ==
  LET n == z \div S
      f == ExpSeries(z % S, 8, S)
  IN  IF n >= 0 THEN MulS(EPowPos(n), f)
      ELSE IF -n > Len(EPowNeg) THEN 0
      ELSE MulS(f, EPowNeg[-n])

RECURSIVE LnRed(_, _)
LnRed(v, n) ==
  IF v >= 2 * S THEN LnRed(v \div 2, n + 1)
  ELSE IF v < S THEN LnRed(v * 2, n - 1)
  ELSE LET y == ((v - S) * S * 10) \div (v + S)      \* (v-1)/(v+1), 1.0 = 10*S
           y2 == (y * y) \div (10 * S)
           y3 == (y * y2) \div (10 * S)
           y5 == (y3 * y2) \div (10 * S)
           y7 == (y5 * y2) \div (10 * S)
           y9 == (y7 * y2) \div (10 * S)
           series == 2 * (y + y3 \div 3 + y5 \div 5 + y7 \div 7 + y9 \div 9)
       IN  n * LN2 + (series + 5) \div 10

\* math.log(v / S) * S for v > 0 (math.log raises ValueError for v <= 0)
Ln(v) == LnRed(v, 0)

\* round(x, 2) where 1.0 = one: to the nearest hundredth, ties to even
round_figure(x, one) ==
  LET h == one \div 100
      k == x \div h
      r == x % h
  IN  IF 2 * r < h THEN k * h
      ELSE IF 2 * r > h THEN (k + 1) * h
      ELSE IF k % 2 = 0 THEN k * h ELSE (k + 1) * h

\* ----------------------------------------------------------------- state
Engines == {"lmsr", "fixed_cap", "strict_profit"}
Sides == {"YES", "NO"}

VARIABLES
  engine,                \* which source variant this market is an instance of
  fee_rate,              \* lmsr: fee_percent_ / 100; strict_profit: fee_rate_
  skew_factor,           \* strict_profit: skew_factor_
  q_T, q_F,              \* outstanding YES / NO shares
  total_fees_collected,
  order_history,
  expected_yes_cashout, expected_no_cashout,
  yes_deposits, no_deposits,
  resolved,              \* lmsr: _resolved (absent attribute = FALSE)
  resolved_outcome,      \* lmsr: _resolved_outcome ("NONE" while absent)
  ret,                   \* what the last call returned or raised
  last,                  \* which call ran last and the path it took
  calls,                 \* how many calls the market has served
  settlements,           \* how many resolve calls have returned a report
  lock,                  \* _lock: the thread inside "with self._lock", or 0
  pc,                    \* per thread: where it is in its call
  local,                 \* per thread: the call it makes and the call's locals
  serial,                \* the fields after the calls so far, run one at a time
                         \* in the order they took the lock
  yes_shares, no_shares, \* UserPortfolio: shares the user holds on each side
  net_cash               \* UserPortfolio: cash received minus cash spent

market == <<q_T, q_F, total_fees_collected, order_history,
            expected_yes_cashout, expected_no_cashout, yes_deposits, no_deposits>>
config == <<engine, fee_rate, skew_factor>>
threads == <<lock, pc, local, serial>>
portfolio == <<yes_shares, no_shares, net_cash>>
vars == <<engine, fee_rate, skew_factor, q_T, q_F, total_fees_collected,
          order_history, expected_yes_cashout, expected_no_cashout,
          yes_deposits, no_deposits, resolved, resolved_outcome, ret, last, calls, settlements,
          lock, pc, local, serial, yes_shares, no_shares, net_cash>>

risk_cap == RiskCap
b == DivS(risk_cap, LN2)        \* self.b = risk_cap_ / math.log(2)

\* the market's fields as one value, for the methods written as functions
Fields == [q_T |-> q_T, q_F |-> q_F, fees |-> total_fees_collected,
           hist |-> order_history,
           eyc |-> expected_yes_cashout, enc |-> expected_no_cashout,
           yd |-> yes_deposits, nd |-> no_deposits]

Order(stake, price, cashout, side, fees) ==
  [kind |-> "Order", stake |-> stake, price |-> price,
   expected_cashout |-> cashout, side |-> side, fees |-> fees]

\* the all-zero Order the buy and sell methods return when they decline
ZeroOrder(side) == Order(0, 0, 0, side, 0)

\* (mutant) the new Order put in front of the earlier ones
update_inventory_prepend(m, side, stake, cashout, price, fees) ==
  [m EXCEPT
     !.eyc = IF side = "YES" THEN @ + cashout ELSE @,
     !.yd = IF side = "YES" THEN @ + stake ELSE @,
     !.enc = IF side = "YES" THEN @ ELSE @ + cashout,
     !.nd = IF side = "YES" THEN @ ELSE @ + stake,
     !.hist = <<Order(stake, price, cashout, side, fees)>> \o @]

\* __update_inventory: per-side aggregates and the appended Order
update_inventory(m, side, stake, cashout, price, fees) ==
  [m EXCEPT
     !.eyc = IF side = "YES" THEN @ + cashout ELSE @,
     !.yd = IF side = "YES" THEN @ + stake ELSE @,
     !.enc = IF side = "YES" THEN @ ELSE @ + cashout,
     !.nd = IF side = "YES" THEN @ ELSE @ + stake,
     !.hist = Append(@, Order(stake, price, cashout, side, fees))]

\* ------------------------------------------------------- cost and price
cost(qT, qF) ==
  LET m == Max(qT, qF)
  IN  MulS(b, DivS(m, b) + Ln(Exp(DivS(qT - m, b)) + Exp(DivS(qF - m, b))))

\* (mutant) the NO price taken as a share of the YES term alone
price_no_over_yes(qT, qF) ==
  LET m == Max(qT, qF)
      exp_T == Exp(DivS(qT - m, b))
      exp_F == Exp(DivS(qF - m, b))
      total == exp_T + exp_F
  IN  [YES |-> DivS(exp_T, total), NO |-> DivS(exp_F, Max(exp_T, 1))]

\* lmsr.py / fixed_cap.py price(): the raw LMSR marginal prices
price(qT, qF) ==
  LET m == Max(qT, qF)
      exp_T == Exp(DivS(qT - m, b))
      exp_F == Exp(DivS(qF - m, b))
      total == exp_T + exp_F
  IN  [YES |-> DivS(exp_T, total), NO |-> DivS(exp_F, total)]

current_loss(qT, qF) == cost(qT, qF) - cost(0, 0)
remaining_risk(qT, qF) == risk_cap - current_loss(qT, qF)

\* for _ in range(60): if f(high) >= target: break; high *= 2.0
\* (a bound that has passed HighCap is kept there: every f below is constant
\* beyond it, so the loop can no longer break and only the size of high grows)
RECURSIVE Expand(_, _, _, _)
Expand(f(_), target, high, n) ==
  IF n = 0 \/ f(high) >= target \/ high >= HighCap THEN high
  ELSE Expand(f, target, Min(2 * high, HighCap), n - 1)

\* for _ in range(60): mid = 0.5*(low+high); low = mid if f(mid) < target else high = mid
\* (an iteration that changes neither bound is repeated unchanged by all the
\* following ones, so the recursion stops there)
RECURSIVE Bisect(_, _, _, _, _)
Bisect(f(_), target, low, high, n) ==
  IF n = 0 THEN <<low, high>>
  ELSE LET mid == (low + high) \div 2
       IN  IF f(mid) < target
           THEN IF mid = low THEN <<low, high>> ELSE Bisect(f, target, mid, high, n - 1)
           ELSE IF mid = high THEN <<low, high>> ELSE Bisect(f, target, low, mid, n - 1)

Iterations == 60

\* lmsr.py / fixed_cap.py max_stake()
max_stake(qT, qF) ==
  LET base_cost == cost(qT, qF)
      rem == risk_cap - (base_cost - cost(0, 0))
      inc(dq) == cost(qT + dq, qF + dq) - base_cost
      high == Expand(inc, rem, U, Iterations)
      lh == Bisect(inc, rem, 0, high, Iterations)
      dq == (lh[1] + lh[2]) \div 2
      p_self == price(qT, qF).YES
  IN  IF rem <= 0 THEN 0
      ELSE MulS(MulS(b, p_self), Exp(DivS(dq, b)) - S)


\* ------------------------------------------------------ results of a call
\* a call's effect: the market fields it leaves, what it returns or raises,
\* and the path it took through the method
Result(m, r, path) == [m |-> m, ret |-> r, path |-> path]
Raise(exc) == [kind |-> "raise", exc |-> exc]
NoneValue == [kind |-> "None"]

\* (mutant) the declined order is recorded like an accepted one
declined_recorded(m, side, path) ==
  Result([m EXCEPT !.hist = Append(@, ZeroOrder(side))], ZeroOrder(side), path)

\* buy()/sell() declining an order: return Order(stake=0, price=0, ...) and
\* leave the market as it is
declined(m, side, path) == Result(m, ZeroOrder(side), path)

\* (mutant) the comparison with the maximum made inclusive
exceeds_max_inclusive(stake, max_allowed) == stake >= max_allowed

\* if stake > max_allowed: decline
exceeds_max(stake, max_allowed) == stake > max_allowed

\* (mutant) the shares added to both sides
add_shares_both(m, side, dq) == [m EXCEPT !.q_T = @ + dq, !.q_F = @ + dq]

add_shares(m, side, dq) ==
  [m EXCEPT !.q_T = IF side = "YES" THEN @ + dq ELSE @,
            !.q_F = IF side = "YES" THEN @ ELSE @ + dq]

\* --------------------------------------------------------- lmsr.py: buy
lmsr_buy_on(m, side, stake) ==
  LET prices == price(m.q_T, m.q_F)
      p_mid == prices[side]
      max_allowed == max_stake(m.q_T, m.q_F)
      fee_amount == MulS(stake, fee_rate)
      net_to_pool == stake - fee_amount
      m1 == [m EXCEPT !.fees = @ + fee_amount]
      bp == MulS(b, p_mid)
      arg == S + DivS(net_to_pool, bp)
      delta_q == MulS(b, Ln(arg))
      m2 == add_shares(m1, side, delta_q)
      side_price == price(m2.q_T, m2.q_F)[side]
      expected_cashout == round_figure(delta_q, U)
      order == Order(stake, round_figure(side_price, S), expected_cashout, side,
                     round_figure(fee_amount, U))
  IN  IF remaining_risk(m.q_T, m.q_F) <= 0 THEN declined(m, side, "capacity_exhausted")
      ELSE IF exceeds_max(stake, max_allowed) THEN declined(m, side, "stake_exceeds_max")
      ELSE IF bp = 0 THEN Result(m1, Raise("ZeroDivisionError"), "raised")
      ELSE IF arg <= 0 THEN Result(m1, Raise("ValueError"), "raised")
      ELSE Result(update_inventory(m2, side, net_to_pool, expected_cashout,
                                   side_price, fee_amount),
                  order, "accepted")

lmsr_buy_call(side, stake) == lmsr_buy_on(Fields, side, stake)

\* -------------------------------------------------------- lmsr.py: sell
\* if dq > self.q_T + 1e-9 (1e-9 of a share is below one unit of the model)
Eps9 == 0

lmsr_sell_on(m, side, stake) ==
  LET max_allowed == max_stake(m.q_T, m.q_F)
      gross_from_pool == DivS(stake, S - fee_rate)
      fee_amount == MulS(gross_from_pool, fee_rate)
      m1 == [m EXCEPT !.fees = @ + fee_amount]
      cost_diff(dq) ==
        IF side = "YES" THEN cost(m.q_T, m.q_F) - cost(m.q_T - dq, m.q_F)
        ELSE cost(m.q_T, m.q_F) - cost(m.q_T, m.q_F - dq)
      high == Expand(cost_diff, gross_from_pool, Max(U, gross_from_pool * 2), Iterations)
      lh == Bisect(cost_diff, gross_from_pool, 0, high, Iterations)
      dq == (lh[1] + lh[2]) \div 2
      q_side == IF side = "YES" THEN m.q_T ELSE m.q_F
      m2 == add_shares(m1, side, -dq)
      side_price == price(m2.q_T, m2.q_F)[side]
      expected_cashout == round_figure(dq, U)
      order == Order(stake, round_figure(side_price, S), expected_cashout, side,
                     round_figure(fee_amount, U))
  IN  IF remaining_risk(m.q_T, m.q_F) <= 0 THEN declined(m, side, "capacity_exhausted")
      ELSE IF exceeds_max(stake, max_allowed) THEN declined(m, side, "stake_exceeds_max")
      ELSE IF dq > q_side + Eps9 THEN Result(m1, NoneValue, "no_shorting")
      ELSE Result(update_inventory(m2, side, -gross_from_pool, -expected_cashout,
                                   side_price, fee_amount),
                  order, "accepted")

lmsr_sell_call(side, stake) == lmsr_sell_on(Fields, side, stake)

\* ----------------------------------------------------- lmsr.py: resolve
risk_used_pct(qT, qF) == DivS(current_loss(qT, qF), risk_cap) * 100

lmsr_resolve_report(outcome) ==
  LET total_payout == IF outcome = "YES" THEN q_T ELSE q_F
      total_deposits == yes_deposits + no_deposits
      gross_pnl == total_deposits - total_payout
      net_pnl == gross_pnl + total_fees_collected
  IN  [kind |-> "report", outcome |-> outcome,
       total_payout |-> round_figure(total_payout, U),
       fees_collected |-> round_figure(total_fees_collected, U),
       gross_pnl |-> round_figure(gross_pnl, U),
       net_pnl |-> round_figure(net_pnl, U),
       risk_cap_used_pct |-> round_figure(risk_used_pct(q_T, q_F), S)]

\* if hasattr(self, '_resolved') and self._resolved: raise RuntimeError
already_resolved == resolved


\* ---------------------------------------------------- fixed_cap.py: buy
\* the constructor's fees_ (default 0.0), copied into every Order
fixed_cap_fees == 0

fixed_cap_buy_on(m, side, stake) ==
  LET prices == price(m.q_T, m.q_F)
      p_self == prices[side]
      max_allowed == max_stake(m.q_T, m.q_F)
      bp == MulS(b, p_self)
      arg == S + DivS(stake, bp)
      delta_q == MulS(b, Ln(arg))
      m2 == add_shares(m, side, delta_q)
      side_price == price(m2.q_T, m2.q_F)[side]
      expected_cashout == round_figure(DivS(stake, side_price), U)
      order == Order(stake, round_figure(side_price, S), expected_cashout, side,
                     fixed_cap_fees)
  IN  IF remaining_risk(m.q_T, m.q_F) <= 0 THEN declined(m, side, "capacity_exhausted")
      ELSE IF exceeds_max(stake, max_allowed) THEN declined(m, side, "stake_exceeds_max")
      ELSE IF bp = 0 THEN Result(m, Raise("ZeroDivisionError"), "raised")
      ELSE IF arg <= 0 THEN Result(m, Raise("ValueError"), "raised")
      ELSE IF side_price = 0 THEN Result(m2, Raise("ZeroDivisionError"), "raised")
      ELSE Result([update_inventory(m2, side, stake, expected_cashout, side_price,
                                    fixed_cap_fees) EXCEPT !.fees = m.fees],
                  order, "accepted")

fixed_cap_buy_call(side, stake) == fixed_cap_buy_on(Fields, side, stake)

\* ------------------------------------------------------ strict_profit.py
PriceFloor == 100     \* 0.01
PriceCeil == 9900     \* 0.99
ImbalanceLimit == 2000  \* 0.2

\* total_q > 1e-6 (1e-6 of a share is below one unit of the model)
Eps6 == 0

\* (mutant) the skew taken off the YES price only, the NO price left raw
strict_price_yes_only(qT, qF) ==
  LET p_yes_raw == price(qT, qF).YES
      total_q == qT + qF
      p_yes_skewed == Max(PriceFloor,
                          Min(PriceCeil, p_yes_raw
                                           - MulS(DivSat(qT - qF, total_q), skew_factor)))
  IN  IF total_q > Eps6
      THEN [YES |-> p_yes_skewed, NO |-> S - p_yes_raw]
      ELSE [YES |-> p_yes_raw, NO |-> S - p_yes_raw]

\* strict_profit.py price(): the raw price moved against the heavier side by
\* skew_factor * imbalance, clamped, and the NO price as its complement
strict_price(qT, qF) ==
  LET p_yes_raw == price(qT, qF).YES
      p_no_raw == S - p_yes_raw
      total_q == qT + qF
      imbalance == DivSat(qT - qF, total_q)
      p_yes_skewed == Max(PriceFloor,
                          Min(PriceCeil, p_yes_raw - MulS(imbalance, skew_factor)))
  IN  IF total_q > Eps6
      THEN [YES |-> p_yes_skewed, NO |-> S - p_yes_skewed]
      ELSE [YES |-> p_yes_raw, NO |-> p_no_raw]

\* (mutant) no directional rule
same_side_never_blocked(qT, qF, side) == FALSE

\* the directional rule of max_stake_for_side: same-side bets are refused
\* while the imbalance is above 20%
same_side_blocked(qT, qF, side) ==
  LET total_q == qT + qF
      net_q == Abs(qT - qF)
  IN  /\ total_q > 0
      /\ DivSat(net_q, total_q) > ImbalanceLimit
      /\ \/ side = "YES" /\ qT > qF
         \/ side = "NO" /\ qF > qT

max_stake_for_side(qT, qF, side) ==
  IF remaining_risk(qT, qF) <= 0 THEN 0
  ELSE IF same_side_blocked(qT, qF, side) THEN 0
  ELSE remaining_risk(qT, qF)

strict_buy_on(m, side, stake) ==
  LET prices == strict_price(m.q_T, m.q_F)
      p_self == prices[side]
      max_allowed == max_stake_for_side(m.q_T, m.q_F, side)
      bp == MulS(b, p_self)
      arg == S + DivS(stake, bp)
      delta_q == MulS(b, Ln(arg))
      m2 == add_shares(m, side, delta_q)
      side_price == strict_price(m2.q_T, m2.q_F)[side]
      rounded_cashout == round_figure(DivS(stake, side_price), U)
      order == Order(stake, round_figure(side_price, S), rounded_cashout, side, 0)
  IN  IF current_loss(m.q_T, m.q_F) >= risk_cap THEN declined(m, side, "capacity_exhausted")
      ELSE IF exceeds_max(stake, max_allowed)
        THEN declined(m, side, IF same_side_blocked(m.q_T, m.q_F, side)
                               THEN "imbalance_limit" ELSE "stake_exceeds_max")
      ELSE IF bp = 0 THEN Result(m, Raise("ZeroDivisionError"), "raised")
      ELSE IF arg <= 0 THEN Result(m, Raise("ValueError"), "raised")
      ELSE IF side_price = 0 THEN Result(m2, Raise("ZeroDivisionError"), "raised")
      ELSE Result([update_inventory(m2, side, stake, rounded_cashout, side_price,
                                    MulS(rounded_cashout, fee_rate))
                     EXCEPT !.fees = m.fees],
                  order, "accepted")

strict_buy_call(side, stake) == strict_buy_on(Fields, side, stake)

\* strict_profit.py resolve(): (net_payout, fee_collected, pnl), no state kept
strict_resolve_report(outcome) ==
  LET gross_payout == IF outcome = "YES" THEN expected_yes_cashout
                      ELSE expected_no_cashout
      fee_collected == MulS(gross_payout, fee_rate)
      net_payout == gross_payout - fee_collected
  IN  [kind |-> "settlement", net_payout |-> net_payout,
       fee_collected |-> fee_collected,
       pnl |-> (yes_deposits + no_deposits) - net_payout]

\* ------------------------------------------ generate_quote and get_pnl
\* (mutant) the quote leaves the probe of the risk solver in the shares
lmsr_generate_quote_probing(m) ==
  Result([m EXCEPT !.q_T = @ + U, !.q_F = @ + U], NoneValue, "quoted")

\* lmsr.py generate_quote(): bid and ask around the marginal prices, and the
\* current max_stake() as the size on both sides
lmsr_generate_quote_on(m) ==
  LET p == price(m.q_T, m.q_F)
      max_size == max_stake(m.q_T, m.q_F)
      yes_ask == Min(S, DivS(p.YES, S - fee_rate))
      yes_bid == Max(0, MulS(p.YES, S - fee_rate))
      no_ask == Min(S, DivS(p.NO, S - fee_rate))
      no_bid == Max(0, MulS(p.NO, S - fee_rate))
  IN  Result(m, [kind |-> "Quote",
                 yes_bid |-> round_figure(yes_bid, S),
                 yes_ask |-> round_figure(yes_ask, S),
                 no_bid |-> round_figure(no_bid, S),
                 no_ask |-> round_figure(no_ask, S),
                 max_buy_size |-> round_figure(max_size, U),
                 max_sell_size |-> round_figure(max_size, U)],
             "quoted")

\* fixed_cap.py generate_quote()
fixed_cap_generate_quote_on(m) ==
  LET p == price(m.q_T, m.q_F)
      max_size == max_stake(m.q_T, m.q_F)
  IN  Result(m, [kind |-> "Quote",
                 yes_price |-> round_figure(p.YES, S),
                 no_price |-> round_figure(p.NO, S),
                 max_size |-> round_figure(max_size, U)],
             "quoted")

\* strict_profit.py generate_quote()
strict_generate_quote_on(m) ==
  LET p == strict_price(m.q_T, m.q_F)
  IN  Result(m, [kind |-> "Quote",
                 yes_price |-> round_figure(p.YES, S),
                 no_price |-> round_figure(p.NO, S),
                 max_yes_size |-> round_figure(max_stake_for_side(m.q_T, m.q_F, "YES"), U),
                 max_no_size |-> round_figure(max_stake_for_side(m.q_T, m.q_F, "NO"), U)],
             "quoted")

\* lmsr.py get_pnl()
lmsr_get_pnl_on(m) ==
  LET total_deposits == m.yd + m.nd
      worst_case_payout == Max(m.q_T, m.q_F)
      unrealized_pnl == total_deposits - worst_case_payout
      realized_pnl == m.fees
  IN  Result(m, [kind |-> "pnl",
                 total_deposits |-> total_deposits,
                 worst_case_payout |-> worst_case_payout,
                 unrealized_pnl |-> unrealized_pnl,
                 realized_pnl |-> realized_pnl,
                 total_pnl |-> unrealized_pnl + realized_pnl,
                 risk_used_pct |-> risk_used_pct(m.q_T, m.q_F)],
             "reported")


\* ------------------------------------------------ lmsr.py: UserPortfolio
\* if shares > owned + 1e-6: the tolerance is the smallest excess over the
\* owned shares that the model can represent
PortfolioEps == 1

PortfolioFields == [yes_shares |-> yes_shares, no_shares |-> no_shares, net_cash |-> net_cash]

\* a portfolio call's effect: the market fields and the portfolio it leaves,
\* what it returns or raises, and the path taken through the market's method
PortfolioResult(m, pf, r, path) == [m |-> m, pf |-> pf, ret |-> r, path |-> path]

credit_shares(pf, side, shares) ==
  [pf EXCEPT !.yes_shares = IF side = "YES" THEN @ + shares ELSE @,
             !.no_shares = IF side = "YES" THEN @ ELSE @ + shares]

\* UserPortfolio.buy after contract.buy returned r: the order's
\* expected_cashout is credited and the stake debited whatever Order the
\* market returned
portfolio_buy_settle(pf, side, stake, r) ==
  IF r.ret.kind = "raise" THEN PortfolioResult(r.m, pf, r.ret, r.path)
  ELSE PortfolioResult(r.m,
                       [credit_shares(pf, side, r.ret.expected_cashout)
                          EXCEPT !.net_cash = @ - stake],
                       r.ret, r.path)

\* UserPortfolio.buy
portfolio_buy_on(m, pf, side, stake) ==
  portfolio_buy_settle(pf, side, stake, lmsr_buy_on(m, side, stake))

\* (mutant) the ownership check left out
insufficient_unchecked(shares, owned) == FALSE

\* if shares > owned + 1e-6: raise ValueError
insufficient(shares, owned) == shares > owned + PortfolioEps

\* stake = shares * bid * (1 - contract.fee_rate)
bid_stake(quote, side, shares) ==
  MulS(MulS(shares, IF side = "YES" THEN quote.yes_bid ELSE quote.no_bid), S - fee_rate)

\* UserPortfolio.sell after contract.sell returned r (order.expected_cashout
\* on the None of a no-shorting decline raises AttributeError)
portfolio_sell_settle(pf, side, r) ==
  IF r.ret.kind = "None" THEN PortfolioResult(r.m, pf, Raise("AttributeError"), r.path)
  ELSE PortfolioResult(r.m,
                       [credit_shares(pf, side, -r.ret.expected_cashout)
                          EXCEPT !.net_cash = @ + r.ret.stake],
                       r.ret, r.path)

\* UserPortfolio.sell from the quote on: shares turned into cash at the
\* quoted bid, then the market's sell
portfolio_sell_quoted(pf, side, shares, quoted) ==
  portfolio_sell_settle(pf, side,
                        lmsr_sell_on(quoted.m, side, bid_stake(quoted.ret, side, shares)))

\* UserPortfolio.sell: the ownership check first, then the quote
portfolio_sell_on(m, pf, side, shares) ==
  IF insufficient(shares, IF side = "YES" THEN pf.yes_shares ELSE pf.no_shares)
  THEN PortfolioResult(m, pf, Raise("ValueError"), "insufficient_shares")
  ELSE portfolio_sell_quoted(pf, side, shares, lmsr_generate_quote_on(m))

\* ---------------------------------------------------------------- inputs
StakeHalf == RiskCap \div 2
StakeNeg == -(RiskCap \div 4)
StakeSell == RiskCap \div 10

Called(op, side, stake, path) == [op |-> op, side |-> side, stake |-> stake, path |-> path]

\* stakes tried by buy: a fixed one, the current limit of the engine and one
\* dollar more than it
BuyStakes(fixed, limit) == {fixed, limit, limit + U}
SellStakes == {StakeSell}

SkewFactors == {100, 5000}          \* skew_factor_ 0.01 (the default) and 0.5
InitialShares == {<<0, 0>>, <<RiskCap, RiskCap>>}   \* (q_T_, q_F_)

\* ------------------------------------------------------------------ Init
NThreads == 2
Threads == 1 .. NThreads
NoCall == [op |-> "none"]

\* no thread has called yet
ThreadsIdle ==
  /\ lock = 0
  /\ pc = [t \in Threads |-> "idle"]
  /\ local = [t \in Threads |-> NoCall]
  /\ serial = Fields

Init ==
  /\ engine \in Engines
  /\ fee_rate = IF engine = "fixed_cap" THEN 0 ELSE 200
  /\ skew_factor \in (IF engine = "strict_profit" THEN SkewFactors ELSE {0})
  /\ \E q \in InitialShares : q_T = q[1] /\ q_F = q[2]
  /\ total_fees_collected = 0
  /\ order_history = <<>>
  /\ expected_yes_cashout = 0 /\ expected_no_cashout = 0
  /\ yes_deposits = 0 /\ no_deposits = 0
  /\ resolved = FALSE
  /\ resolved_outcome = "NONE"
  /\ ret = NoneValue
  /\ last = Called("init", "NONE", 0, "constructed")
  /\ calls = 0
  /\ settlements = 0
  /\ yes_shares = 0 /\ no_shares = 0 /\ net_cash = 0
  /\ ThreadsIdle

\* --------------------------------------------------------------- actions
\* the fields a call leaves, its return value and its path become the state
Served == calls < MaxCalls /\ calls' = calls + 1

Commit(r, op, side, stake) ==
  /\ q_T' = r.m.q_T
  /\ q_F' = r.m.q_F
  /\ total_fees_collected' = r.m.fees
  /\ order_history' = r.m.hist
  /\ expected_yes_cashout' = r.m.eyc
  /\ expected_no_cashout' = r.m.enc
  /\ yes_deposits' = r.m.yd
  /\ no_deposits' = r.m.nd
  /\ ret' = r.ret
  /\ last' = Called(op, side, stake, r.path)

lmsr_buy(side, stake) ==
  /\ engine = "lmsr"
  /\ Served
  /\ \E r \in {lmsr_buy_call(side, stake)} : Commit(r, "buy", side, stake)
  /\ UNCHANGED <<config, portfolio, resolved, resolved_outcome, settlements, threads>>

lmsr_sell(side, stake) ==
  /\ engine = "lmsr"
  /\ Served
  /\ \E r \in {lmsr_sell_call(side, stake)} : Commit(r, "sell", side, stake)
  /\ UNCHANGED <<config, portfolio, resolved, resolved_outcome, settlements, threads>>

lmsr_resolve(outcome) ==
  /\ engine = "lmsr"
  /\ Served
  /\ IF already_resolved
     THEN /\ ret' = Raise("RuntimeError")
          /\ last' = Called("resolve", outcome, 0, "already_resolved")
          /\ UNCHANGED <<resolved, resolved_outcome, settlements>>
     ELSE /\ resolved_outcome' = outcome
          /\ resolved' = TRUE
          /\ ret' = lmsr_resolve_report(outcome)
          /\ last' = Called("resolve", outcome, 0, "resolved")
          /\ settlements' = settlements + 1
  /\ UNCHANGED <<config, portfolio, market, threads>>

fixed_cap_buy(side, stake) ==
  /\ engine = "fixed_cap"
  /\ Served
  /\ \E r \in {fixed_cap_buy_call(side, stake)} : Commit(r, "buy", side, stake)
  /\ UNCHANGED <<config, portfolio, resolved, resolved_outcome, settlements, threads>>

strict_buy(side, stake) ==
  /\ engine = "strict_profit"
  /\ Served
  /\ \E r \in {strict_buy_call(side, stake)} : Commit(r, "buy", side, stake)
  /\ UNCHANGED <<config, portfolio, resolved, resolved_outcome, settlements, threads>>

strict_resolve(outcome) ==
  /\ engine = "strict_profit"
  /\ Served
  /\ ret' = strict_resolve_report(outcome)
  /\ last' = Called("resolve", outcome, 0, "resolved")
  /\ settlements' = settlements + 1
  /\ UNCHANGED <<config, portfolio, market, resolved, resolved_outcome, threads>>

Next ==
  \/ \E side \in Sides : \E stake \in BuyStakes(StakeNeg, max_stake(q_T, q_F)) :
       lmsr_buy(side, stake)
  \/ \E side \in Sides : \E stake \in SellStakes : lmsr_sell(side, stake)
  \/ \E outcome \in Sides : lmsr_resolve(outcome)
  \/ \E side \in Sides : \E stake \in BuyStakes(StakeNeg, max_stake(q_T, q_F)) :
       fixed_cap_buy(side, stake)
  \/ \E side \in Sides : \E stake \in BuyStakes(StakeHalf, max_stake_for_side(q_T, q_F, side)) :
       strict_buy(side, stake)
  \/ \E outcome \in Sides : strict_resolve(outcome)

Spec == Init /\ [][Next]_vars


\* ------------------------------------------- lmsr.py: calls from threads
\* Each thread makes one buy or sell on the lmsr market.  The method body runs
\* inside "with self._lock"; it is split where another thread could run if
\* the lock did not keep it out: after the checks, after the share update,
\* after the ledger update.

\* (mutant) a lock that lets every caller in
lock_never_held == TRUE

\* threading.Lock: __enter__ returns only while no thread holds the lock
lock_free == lock = 0

InCall(t) == pc[t] \in {"check", "shares", "ledger", "release"}

call_on(m, c) ==
  IF c.op = "buy" THEN lmsr_buy_on(m, c.side, c.stake)
  ELSE lmsr_sell_on(m, c.side, c.stake)

\* a caller invokes buy or sell, with a stake it chose from what it last saw
Begin(t, op, side, stake) ==
  /\ pc[t] = "idle"
  /\ pc' = [pc EXCEPT ![t] = "acquire"]
  /\ local' = [local EXCEPT ![t] = [op |-> op, side |-> side, stake |-> stake]]
  /\ UNCHANGED <<config, portfolio, market, resolved, resolved_outcome, ret, last, calls,
                 settlements, lock, serial>>

\* with self._lock:
Acquire(t) ==
  /\ pc[t] = "acquire"
  /\ lock_free
  /\ lock' = t
  /\ pc' = [pc EXCEPT ![t] = "check"]
  /\ UNCHANGED <<config, portfolio, market, resolved, resolved_outcome, ret, last, calls,
                 settlements, local, serial>>

\* the capacity and stake checks and the amounts the call will apply, all
\* read from the fields as they are now
Check(t) ==
  /\ pc[t] = "check"
  /\ \E r \in {call_on(Fields, local[t])} :
       local' = [local EXCEPT ![t] =
                   [op |-> @.op, side |-> @.side, stake |-> @.stake,
                    pre |-> Fields, r |-> r]]
  /\ serial' = call_on(serial, local[t]).m
  /\ pc' = [pc EXCEPT ![t] = "shares"]
  /\ UNCHANGED <<config, portfolio, market, resolved, resolved_outcome, ret, last, calls,
                 settlements, lock>>

\* self.total_fees_collected += fee_amount; self.q_T += delta_q (or q_F)
WriteShares(t) ==
  /\ pc[t] = "shares"
  /\ total_fees_collected' = total_fees_collected + (local[t].r.m.fees - local[t].pre.fees)
  /\ q_T' = q_T + (local[t].r.m.q_T - local[t].pre.q_T)
  /\ q_F' = q_F + (local[t].r.m.q_F - local[t].pre.q_F)
  /\ pc' = [pc EXCEPT ![t] = "ledger"]
  /\ UNCHANGED <<config, portfolio, order_history, expected_yes_cashout, expected_no_cashout,
                 yes_deposits, no_deposits, resolved, resolved_outcome, ret, last,
                 calls, settlements, lock, local, serial>>

\* self.__update_inventory(...); return order
WriteLedger(t) ==
  /\ pc[t] = "ledger"
  /\ expected_yes_cashout' = expected_yes_cashout + (local[t].r.m.eyc - local[t].pre.eyc)
  /\ expected_no_cashout' = expected_no_cashout + (local[t].r.m.enc - local[t].pre.enc)
  /\ yes_deposits' = yes_deposits + (local[t].r.m.yd - local[t].pre.yd)
  /\ no_deposits' = no_deposits + (local[t].r.m.nd - local[t].pre.nd)
  /\ order_history' = order_history \o SubSeq(local[t].r.m.hist,
                                             Len(local[t].pre.hist) + 1,
                                             Len(local[t].r.m.hist))
  /\ ret' = local[t].r.ret
  /\ last' = Called(local[t].op, local[t].side, local[t].stake, local[t].r.path)
  /\ pc' = [pc EXCEPT ![t] = "release"]
  /\ UNCHANGED <<config, portfolio, q_T, q_F, total_fees_collected, resolved, resolved_outcome,
                 calls, settlements, lock, local, serial>>

\* leaving the with block releases the lock, on return as on raise
Release(t) ==
  /\ pc[t] = "release"
  /\ lock' = 0
  /\ pc' = [pc EXCEPT ![t] = "done"]
  /\ UNCHANGED <<config, portfolio, market, resolved, resolved_outcome, ret, last, calls,
                 settlements, local, serial>>

InitThreads == Init /\ engine = "lmsr" /\ q_T = 0 /\ q_F = 0

NextThreads ==
  \/ \E t \in Threads : \E side \in Sides : Begin(t, "buy", side, max_stake(q_T, q_F))
  \/ \E t \in Threads : \E side \in Sides : Begin(t, "sell", side, StakeSell)
  \/ \E t \in Threads : Acquire(t)
  \/ \E t \in Threads : Check(t)
  \/ \E t \in Threads : WriteShares(t)
  \/ \E t \in Threads : WriteLedger(t)
  \/ \E t \in Threads : Release(t)

SpecThreads == InitThreads /\ [][NextThreads]_vars

\* --------------------------------------------------- calls that only read
lmsr_generate_quote ==
  /\ engine = "lmsr"
  /\ Served
  /\ \E r \in {lmsr_generate_quote_on(Fields)} : Commit(r, "generate_quote", "NONE", 0)
  /\ UNCHANGED <<config, portfolio, resolved, resolved_outcome, settlements, threads>>

fixed_cap_generate_quote ==
  /\ engine = "fixed_cap"
  /\ Served
  /\ \E r \in {fixed_cap_generate_quote_on(Fields)} : Commit(r, "generate_quote", "NONE", 0)
  /\ UNCHANGED <<config, portfolio, resolved, resolved_outcome, settlements, threads>>

strict_generate_quote ==
  /\ engine = "strict_profit"
  /\ Served
  /\ \E r \in {strict_generate_quote_on(Fields)} : Commit(r, "generate_quote", "NONE", 0)
  /\ UNCHANGED <<config, portfolio, resolved, resolved_outcome, settlements, threads>>

lmsr_get_pnl ==
  /\ engine = "lmsr"
  /\ Served
  /\ \E r \in {lmsr_get_pnl_on(Fields)} : Commit(r, "get_pnl", "NONE", 0)
  /\ UNCHANGED <<config, portfolio, resolved, resolved_outcome, settlements, threads>>

\* the market's calls with the reading calls among them
NextReads ==
  \/ Next
  \/ lmsr_generate_quote
  \/ fixed_cap_generate_quote
  \/ strict_generate_quote
  \/ lmsr_get_pnl

SpecReads == Init /\ [][NextReads]_vars


\* ------------------------------------------- calls through a UserPortfolio
CommitPortfolio(r) ==
  /\ yes_shares' = r.pf.yes_shares
  /\ no_shares' = r.pf.no_shares
  /\ net_cash' = r.pf.net_cash

portfolio_buy(side, stake) ==
  /\ engine = "lmsr"
  /\ Served
  /\ \E r \in {portfolio_buy_on(Fields, PortfolioFields, side, stake)} :
       Commit(r, "portfolio_buy", side, stake) /\ CommitPortfolio(r)
  /\ UNCHANGED <<config, resolved, resolved_outcome, settlements, threads>>

portfolio_sell(side, shares) ==
  /\ engine = "lmsr"
  /\ Served
  /\ \E r \in {portfolio_sell_on(Fields, PortfolioFields, side, shares)} :
       Commit(r, "portfolio_sell", side, shares) /\ CommitPortfolio(r)
  /\ UNCHANGED <<config, resolved, resolved_outcome, settlements, threads>>

\* shares a user asks to sell: all they own, the smallest amount more, one
\* share more
SellShares(owned) == {owned, owned + PortfolioEps, owned + U}
PortfolioStakes == {StakeSell, StakeHalf}
FeeRates == {0, 200}                \* fee_percent_ 0.0 and 2.0 (the default)

\* one user trading on a fresh lmsr.py market
InitPortfolio ==
  /\ engine = "lmsr"
  /\ fee_rate \in FeeRates
  /\ skew_factor = 0
  /\ q_T = 0 /\ q_F = 0
  /\ total_fees_collected = 0
  /\ order_history = <<>>
  /\ expected_yes_cashout = 0 /\ expected_no_cashout = 0
  /\ yes_deposits = 0 /\ no_deposits = 0
  /\ resolved = FALSE
  /\ resolved_outcome = "NONE"
  /\ ret = NoneValue
  /\ last = Called("init", "NONE", 0, "constructed")
  /\ calls = 0
  /\ settlements = 0
  /\ yes_shares = 0 /\ no_shares = 0 /\ net_cash = 0
  /\ ThreadsIdle

NextPortfolio ==
  \/ \E side \in Sides : \E stake \in PortfolioStakes : portfolio_buy(side, stake)
  \/ \E side \in Sides :
       \E shares \in SellShares(IF side = "YES" THEN yes_shares ELSE no_shares) :
         portfolio_sell(side, shares)

SpecPortfolio == InitPortfolio /\ [][NextPortfolio]_vars


\* ------------------------------- lmsr.py: get_pnl beside trading threads
\* get_pnl() takes no lock: a caller outside the trading threads reads the
\* fields as they are at that moment, whatever the threads are in the middle of
thread_get_pnl ==
  /\ \E r \in {lmsr_get_pnl_on(Fields)} :
       /\ ret' = r.ret
       /\ last' = Called("get_pnl", "NONE", 0, r.path)
  /\ UNCHANGED <<config, portfolio, market, resolved, resolved_outcome, calls,
                 settlements, threads>>

NextSnapshot ==
  \/ NextThreads
  \/ thread_get_pnl

SpecSnapshot == InitThreads /\ [][NextSnapshot]_vars

\* --------------------------------------- lmsr.py: the lock, method by method
\* Each thread makes one call of buy, sell, resolve, generate_quote or
\* UserPortfolio.sell (which calls generate_quote and then sell).  What a
\* method does inside "with self._lock" is one step here; the steps are
\* taking the lock, the locked block, and leaving it.

\* the methods whose body is "with self._lock:"
takes_lock(method) == method \in {"buy", "sell", "resolve", "generate_quote"}

\* (mutant) buy and sell asking generate_quote for their limit
calls_under_lock_quoting(op) ==
  IF op = "resolve" THEN {"cost"}
  ELSE IF op = "generate_quote" THEN {"price", "max_stake", "cost"}
  ELSE {"cost", "price", "generate_quote", "update_inventory"}

\* the methods a method calls on the same market while it holds the lock
calls_under_lock(op) ==
  IF op = "resolve" THEN {"cost"}
  ELSE IF op = "generate_quote" THEN {"price", "max_stake", "cost"}
  ELSE {"cost", "price", "max_stake", "update_inventory"}

StakeRaise == -RiskCap        \* a stake for which math.log raises ValueError

\* a thread calls a method of the market, directly or from UserPortfolio.sell
Call(t, op, side, stake, caller) ==
  /\ pc[t] = "idle"
  /\ pc' = [pc EXCEPT ![t] = "acquire"]
  /\ local' = [local EXCEPT ![t] = [op |-> op, side |-> side, stake |-> stake,
                                     caller |-> caller, shares |-> stake]]
  /\ UNCHANGED <<config, portfolio, market, resolved, resolved_outcome, ret, last, calls,
                 settlements, lock, serial>>

\* UserPortfolio.sell: the ownership check, made before the market is called
CallPortfolioSell(t, side, shares) ==
  IF insufficient(shares, IF side = "YES" THEN yes_shares ELSE no_shares)
  THEN /\ pc[t] = "idle"
       /\ pc' = [pc EXCEPT ![t] = "done"]
       /\ local' = [local EXCEPT ![t] = [op |-> "portfolio_sell", side |-> side,
                                          stake |-> shares, caller |-> "portfolio",
                                          shares |-> shares,
                                          r |-> Result(Fields, Raise("ValueError"),
                                                       "insufficient_shares")]]
       /\ ret' = Raise("ValueError")
       /\ last' = Called("portfolio_sell", side, shares, "insufficient_shares")
       /\ UNCHANGED <<config, portfolio, market, resolved, resolved_outcome, calls,
                      settlements, lock, serial>>
  ELSE Call(t, "generate_quote", side, shares, "portfolio")

locked_call_on(m, c) ==
  IF c.op = "buy" THEN lmsr_buy_on(m, c.side, c.stake)
  ELSE IF c.op = "sell" THEN lmsr_sell_on(m, c.side, c.stake)
  ELSE lmsr_generate_quote_on(m)

\* the block inside "with self._lock": a call of a method that takes the lock
\* itself would wait for it here, with the lock held
RunLocked(t) ==
  /\ pc[t] = "check"
  /\ IF \E method \in calls_under_lock(local[t].op) : takes_lock(method)
     THEN /\ pc' = [pc EXCEPT ![t] = "acquire"]
          /\ UNCHANGED <<market, resolved, resolved_outcome, ret, last, settlements,
                         local, serial>>
     ELSE IF local[t].op = "resolve"
     THEN /\ IF already_resolved
             THEN /\ ret' = Raise("RuntimeError")
                  /\ last' = Called("resolve", local[t].side, 0, "already_resolved")
                  /\ local' = [local EXCEPT ![t] =
                                 [op |-> @.op, side |-> @.side, stake |-> @.stake,
                                  caller |-> @.caller, shares |-> @.shares,
                                  r |-> Result(Fields, Raise("RuntimeError"),
                                               "already_resolved")]]
                  /\ UNCHANGED <<resolved, resolved_outcome, settlements>>
             ELSE /\ resolved_outcome' = local[t].side
                  /\ resolved' = TRUE
                  /\ ret' = lmsr_resolve_report(local[t].side)
                  /\ last' = Called("resolve", local[t].side, 0, "resolved")
                  /\ local' = [local EXCEPT ![t] =
                                 [op |-> @.op, side |-> @.side, stake |-> @.stake,
                                  caller |-> @.caller, shares |-> @.shares,
                                  r |-> Result(Fields, lmsr_resolve_report(local[t].side),
                                               "resolved")]]
                  /\ settlements' = settlements + 1
          /\ pc' = [pc EXCEPT ![t] = "release"]
          /\ UNCHANGED <<market, serial>>
     ELSE /\ \E r \in {locked_call_on(Fields, local[t])} :
               /\ Commit(r, local[t].op, local[t].side, local[t].stake)
               /\ serial' = r.m
               /\ local' = [local EXCEPT ![t] =
                              [op |-> @.op, side |-> @.side, stake |-> @.stake,
                               caller |-> @.caller, shares |-> @.shares, r |-> r]]
          /\ pc' = [pc EXCEPT ![t] = "release"]
          /\ UNCHANGED <<resolved, resolved_outcome, settlements>>
  /\ UNCHANGED <<config, portfolio, calls, lock>>

\* leaving the with block, by return or by exception, releases the lock;
\* UserPortfolio.sell goes on from its quote to contract.sell, and from
\* contract.sell to its own bookkeeping
Leave(t) ==
  /\ pc[t] = "release"
  /\ lock' = 0
  /\ IF local[t].caller = "portfolio" /\ local[t].op = "generate_quote"
     THEN /\ pc' = [pc EXCEPT ![t] = "acquire"]
          /\ local' = [local EXCEPT ![t] =
                         [op |-> "sell", side |-> @.side,
                          stake |-> bid_stake(@.r.ret, @.side, @.shares),
                          caller |-> "portfolio", shares |-> @.shares]]
     ELSE /\ pc' = [pc EXCEPT ![t] = IF local[t].caller = "portfolio"
                                       THEN "settle" ELSE "done"]
          /\ UNCHANGED local
  /\ UNCHANGED <<config, portfolio, market, resolved, resolved_outcome, ret, last, calls,
                 settlements, serial>>

\* UserPortfolio.sell after contract.sell has returned
SettlePortfolio(t) ==
  /\ pc[t] = "settle"
  /\ \E r \in {portfolio_sell_settle(PortfolioFields, local[t].side, local[t].r)} :
       /\ CommitPortfolio(r)
       /\ ret' = r.ret
  /\ last' = Called("portfolio_sell", local[t].side, local[t].shares, local[t].r.path)
  /\ pc' = [pc EXCEPT ![t] = "done"]
  /\ UNCHANGED <<config, market, resolved, resolved_outcome, calls, settlements, lock,
                 local, serial>>

\* the calls of this setting; generate_quote is called by UserPortfolio.sell,
\* for the shares the user owns
NextLocking ==
  \/ \E t \in Threads : \E stake \in {max_stake(q_T, q_F), StakeRaise} :
       Call(t, "buy", "YES", stake, "direct")
  \/ \E t \in Threads : Call(t, "sell", "YES", StakeSell, "direct")
  \/ \E t \in Threads : Call(t, "resolve", "YES", 0, "direct")
  \/ \E t \in Threads : CallPortfolioSell(t, "YES", yes_shares)
  \/ \E t \in Threads : Acquire(t)
  \/ \E t \in Threads : RunLocked(t)
  \/ \E t \in Threads : Leave(t)
  \/ \E t \in Threads : SettlePortfolio(t)

\* Scheduling: a thread that can take the lock, or leave the with block, is not
\* held back forever, and the code it runs between the two (RunLocked, and
\* SettlePortfolio after the lock) has no wait in it: those two steps are
\* enabled whenever the thread stands at them, so that no thread stands
\* there forever is their weak fairness.
SpecLocking ==
  /\ InitThreads
  /\ [][NextLocking]_vars
  /\ \A t \in Threads : WF_vars(Acquire(t)) /\ WF_vars(Leave(t))
  /\ \A t \in Threads : []<>(pc[t] \notin {"check", "settle"})

\* --------------------------- strict_profit.py markets of any skew_factor_
StakeQuarter == RiskCap \div 4
SkewFactorsWide == {0, 100, 5000, 50000}   \* skew_factor_ 0, 0.01 (the default), 0.5, 5

\* a strict_profit.py market constructed with q_T_ = q_F_ = 0 (the defaults)
InitSkew ==
  /\ engine = "strict_profit"
  /\ fee_rate = 200
  /\ skew_factor \in SkewFactorsWide
  /\ q_T = 0 /\ q_F = 0
  /\ total_fees_collected = 0
  /\ order_history = <<>>
  /\ expected_yes_cashout = 0 /\ expected_no_cashout = 0
  /\ yes_deposits = 0 /\ no_deposits = 0
  /\ resolved = FALSE
  /\ resolved_outcome = "NONE"
  /\ ret = NoneValue
  /\ last = Called("init", "NONE", 0, "constructed")
  /\ calls = 0
  /\ settlements = 0
  /\ yes_shares = 0 /\ no_shares = 0 /\ net_cash = 0
  /\ ThreadsIdle

NextSkew ==
  \/ \E side \in Sides :
       \E stake \in BuyStakes(StakeQuarter, max_stake_for_side(q_T, q_F, side)) :
         strict_buy(side, stake)
  \/ \E outcome \in Sides : strict_resolve(outcome)
  \/ strict_generate_quote

SpecSkew == InitSkew /\ [][NextSkew]_vars


\* ------------------------------- lmsr.py: the solver loops, one turn a step
\* One thread calls max_stake, solve_delta_q, buy, sell, generate_quote and
\* resolve, one call after the other.  Every turn of a "for _ in range(60)"
\* loop is two steps, the cost it computes and the test it makes of it:
\* local[t].i counts the doublings of the loop that is
\* running and local[t].j its halvings.

\* money = float("inf"): above every cost increase a bracket bound can give
MoneyInf == 8 * HighCap

\* the thread that makes the calls
LoopCaller == CHOOSE t \in Threads : \A u \in Threads : t <= u

LockingOps == {"buy", "sell", "generate_quote", "resolve"}

\* the function a loop brackets, at the market as it stands
loop_value(loop, side, x) ==
  IF loop = "max_stake" THEN cost(q_T + x, q_F + x) - cost(q_T, q_F)
  ELSE IF loop = "cost_diff"
  THEN IF side = "YES" THEN cost(q_T, q_F) - cost(q_T - x, q_F)
       ELSE cost(q_T, q_F) - cost(q_T, q_F - x)
  ELSE IF side = "YES" THEN cost(q_T + x, q_F) - cost(q_T, q_F)
       ELSE cost(q_T, q_F + x) - cost(q_T, q_F)

\* (mutant) a loop that goes on for as long as the target is not met
turns_left_until_met(n) == TRUE

\* for _ in range(60): the loop body is entered while fewer than 60 turns ran
turns_left(n) == n < Iterations

\* a float returned by max_stake or solve_delta_q
FloatValue(x) == [kind |-> "float", value |-> x]

\* low, high = 0.0, high0 at the head of a pair of loops
StartLoop(c, loop, high0, target) ==
  [c EXCEPT !.loop = loop, !.low = 0, !.high = high0, !.target = target,
            !.i = 0, !.j = 0, !.val = 0]

\* the thread is between calls
Returned(t) == pc[t] \in {"idle", "done"}

LoopCall(t, op, side, stake) ==
  /\ Returned(t)
  /\ Served
  /\ pc' = [pc EXCEPT ![t] = IF op \in LockingOps THEN "acquire" ELSE "check"]
  /\ local' = [local EXCEPT ![t] =
                 [op |-> op, side |-> side, stake |-> stake, caller |-> "direct",
                  shares |-> 0, loop |-> "none", low |-> 0, high |-> 0,
                  target |-> 0, i |-> 0, j |-> 0, val |-> 0, ms |-> 0]]
  /\ UNCHANGED <<config, portfolio, market, resolved, resolved_outcome, ret, last,
                 settlements, lock, serial>>

\* the head of the method, up to its first loop
EnterMethod(t) ==
  /\ pc[t] = "check"
  /\ IF local[t].op = "resolve"
     THEN /\ IF already_resolved
             THEN /\ ret' = Raise("RuntimeError")
                  /\ last' = Called("resolve", local[t].side, 0, "already_resolved")
                  /\ UNCHANGED <<resolved, resolved_outcome, settlements>>
             ELSE /\ resolved_outcome' = local[t].side
                  /\ resolved' = TRUE
                  /\ ret' = lmsr_resolve_report(local[t].side)
                  /\ last' = Called("resolve", local[t].side, 0, "resolved")
                  /\ settlements' = settlements + 1
          /\ pc' = [pc EXCEPT ![t] = "release"]
          /\ UNCHANGED local
     ELSE IF local[t].op = "solve_delta_q"
     THEN /\ local' = [local EXCEPT ![t] = StartLoop(@, "solve", U, @.stake)]
          /\ pc' = [pc EXCEPT ![t] = "expand"]
          /\ UNCHANGED <<resolved, resolved_outcome, settlements, ret, last>>
     ELSE IF remaining_risk(q_T, q_F) <= 0
     THEN /\ pc' = [pc EXCEPT ![t] = "finish"]
          /\ UNCHANGED <<resolved, resolved_outcome, settlements, ret, last, local>>
     ELSE /\ local' = [local EXCEPT ![t] =
                         StartLoop(@, "max_stake", U, remaining_risk(q_T, q_F))]
          /\ pc' = [pc EXCEPT ![t] = "expand"]
          /\ UNCHANGED <<resolved, resolved_outcome, settlements, ret, last>>
  /\ UNCHANGED <<config, portfolio, market, calls, lock, serial>>

\* for _ in range(60): ... f(high) ...: the loop head and the cost it computes
ExpandCost(t) ==
  /\ pc[t] = "expand"
  /\ IF turns_left(local[t].i)
     THEN /\ local' = [local EXCEPT ![t].val =
                         loop_value(local[t].loop, local[t].side, local[t].high)]
          /\ pc' = [pc EXCEPT ![t] = "expand_test"]
     ELSE /\ pc' = [pc EXCEPT ![t] = "bisect"]
          /\ UNCHANGED local
  /\ UNCHANGED <<config, portfolio, market, resolved, resolved_outcome, ret, last, calls,
                 settlements, lock, serial>>

\* if f(high) >= target: break; high *= 2.0
ExpandTest(t) ==
  /\ pc[t] = "expand_test"
  /\ IF local[t].val >= local[t].target
     THEN /\ pc' = [pc EXCEPT ![t] = "bisect"]
          /\ UNCHANGED local
     ELSE /\ local' = [local EXCEPT ![t].high = Min(2 * @, HighCap), ![t].i = @ + 1]
          /\ pc' = [pc EXCEPT ![t] = "expand"]
  /\ UNCHANGED <<config, portfolio, market, resolved, resolved_outcome, ret, last, calls,
                 settlements, lock, serial>>

\* for _ in range(60): mid = 0.5 * (low + high); ... f(mid) ...
BisectCost(t) ==
  /\ pc[t] = "bisect"
  /\ IF turns_left(local[t].j)
     THEN /\ local' = [local EXCEPT ![t].val =
                         loop_value(local[t].loop, local[t].side,
                                    (local[t].low + local[t].high) \div 2)]
          /\ pc' = [pc EXCEPT ![t] = "bisect_test"]
     ELSE /\ pc' = [pc EXCEPT ![t] = "solved"]
          /\ UNCHANGED local
  /\ UNCHANGED <<config, portfolio, market, resolved, resolved_outcome, ret, last, calls,
                 settlements, lock, serial>>

\* if f(mid) < target: low = mid else: high = mid
BisectTest(t) ==
  /\ pc[t] = "bisect_test"
  /\ \E mid \in {(local[t].low + local[t].high) \div 2} :
       local' = IF local[t].val < local[t].target
                THEN [local EXCEPT ![t].low = mid, ![t].j = @ + 1]
                ELSE [local EXCEPT ![t].high = mid, ![t].j = @ + 1]
  /\ pc' = [pc EXCEPT ![t] = "bisect"]
  /\ UNCHANGED <<config, portfolio, market, resolved, resolved_outcome, ret, last, calls,
                 settlements, lock, serial>>

\* max_stake_val = b * p_self * (exp(dq / b) - 1) with dq = 0.5 * (low + high)
max_stake_val(dq) == MulS(MulS(b, price(q_T, q_F).YES), Exp(DivS(dq, b)) - S)

\* after the second loop: max_stake and solve_delta_q return; sell goes on to
\* its own pair of loops unless the stake is over the limit
AfterLoops(t) ==
  /\ pc[t] = "solved"
  /\ \E dq \in {(local[t].low + local[t].high) \div 2} :
       IF local[t].loop = "solve"
       THEN /\ ret' = FloatValue(dq)
            /\ last' = Called("solve_delta_q", local[t].side, local[t].stake, "returned")
            /\ pc' = [pc EXCEPT ![t] = "done"]
            /\ UNCHANGED local
       ELSE IF local[t].loop = "cost_diff"
       THEN /\ pc' = [pc EXCEPT ![t] = "finish"]
            /\ UNCHANGED <<ret, last, local>>
       ELSE IF local[t].op = "max_stake"
       THEN /\ ret' = FloatValue(max_stake_val(dq))
            /\ last' = Called("max_stake", "NONE", 0, "returned")
            /\ pc' = [pc EXCEPT ![t] = "done"]
            /\ local' = [local EXCEPT ![t].ms = max_stake_val(dq)]
       ELSE IF local[t].op = "sell" /\ ~exceeds_max(local[t].stake, max_stake_val(dq))
       THEN /\ \E gross \in {DivS(local[t].stake, S - fee_rate)} :
                 local' = [local EXCEPT ![t] =
                             [StartLoop(@, "cost_diff", Max(U, gross * 2), gross)
                                EXCEPT !.ms = max_stake_val(dq)]]
            /\ pc' = [pc EXCEPT ![t] = "expand"]
            /\ UNCHANGED <<ret, last>>
       ELSE /\ local' = [local EXCEPT ![t].ms = max_stake_val(dq)]
            /\ pc' = [pc EXCEPT ![t] = "finish"]
            /\ UNCHANGED <<ret, last>>
  /\ UNCHANGED <<config, portfolio, market, resolved, resolved_outcome, calls,
                 settlements, lock, serial>>

\* the rest of the method: max_stake with no risk left returns 0.0; buy, sell
\* and generate_quote return, decline or raise with the lock still held
FinishMethod(t) ==
  /\ pc[t] = "finish"
  /\ IF local[t].op = "max_stake"
     THEN /\ ret' = FloatValue(0)
          /\ last' = Called("max_stake", "NONE", 0, "returned")
          /\ pc' = [pc EXCEPT ![t] = "done"]
          /\ UNCHANGED <<market, serial>>
     ELSE /\ \E r \in {locked_call_on(Fields, local[t])} :
               /\ Commit(r, local[t].op, local[t].side, local[t].stake)
               /\ serial' = r.m
          /\ pc' = [pc EXCEPT ![t] = "release"]
  /\ UNCHANGED <<config, portfolio, resolved, resolved_outcome, calls, settlements, lock,
                 local>>

NextLoops ==
  \/ LoopCall(LoopCaller, "max_stake", "NONE", 0)
  \/ \E money \in {StakeQuarter, MoneyInf} :
       LoopCall(LoopCaller, "solve_delta_q", "YES", money)
  \/ /\ Returned(LoopCaller)
     /\ \E stake \in {StakeNeg, max_stake(q_T, q_F)} :
          LoopCall(LoopCaller, "buy", "YES", stake)
  \/ /\ Returned(LoopCaller)
     /\ \E stake \in {StakeSell, max_stake(q_T, q_F)} :
          LoopCall(LoopCaller, "sell", "YES", stake)
  \/ LoopCall(LoopCaller, "generate_quote", "NONE", 0)
  \/ LoopCall(LoopCaller, "resolve", "YES", 0)
  \/ Acquire(LoopCaller)
  \/ EnterMethod(LoopCaller)
  \/ ExpandCost(LoopCaller)
  \/ ExpandTest(LoopCaller)
  \/ BisectCost(LoopCaller)
  \/ BisectTest(LoopCaller)
  \/ AfterLoops(LoopCaller)
  \/ FinishMethod(LoopCaller)
  \/ Leave(LoopCaller)

\* Scheduling: the thread is not held back forever at the lock, at the test
\* of a loop turn or at the release.  The straight-line code (the head of a
\* method, a cost computed in a loop turn, the code between and after the
\* loops) has no wait in it: EnterMethod, ExpandCost, BisectCost, AfterLoops
\* and FinishMethod are enabled whenever the thread stands at them, so that
\* it never stands at one of them forever is their weak fairness.  A loop
\* that never ended would pass through these places again and again, which
\* this condition allows.
SpecLoops ==
  /\ InitThreads
  /\ [][NextLoops]_vars
  /\ WF_vars(Acquire(LoopCaller)) /\ WF_vars(Leave(LoopCaller))
  /\ WF_vars(ExpandTest(LoopCaller)) /\ WF_vars(BisectTest(LoopCaller))
  /\ \A at \in {"check", "expand", "bisect", "solved", "finish"} :
       []<>(pc[LoopCaller] # at)

\* ================================================================ claims

\* C1 (as claimed): once resolve has succeeded, a later buy or sell leaves
\* q_T, q_F, both deposits, both expected cashouts, total_fees_collected and
\* order_history unchanged.
C1_FrozenAfterResolve ==
  [][(resolved /\ last'.op \in {"buy", "sell"}) => market' = market]_vars

\* C2 (as claimed): of all resolve calls on a market exactly the first returns
\* a report, and a resolved market keeps its state and its outcome.
C2_ResolveSingleFire ==
  /\ [](settlements <= 1)
  /\ [][resolved => (resolved' /\ resolved_outcome' = resolved_outcome)]_vars

\* C3 (as claimed): in every state reached by buys and sells the cost
\* excursion cost(q_T, q_F) - cost(0, 0) is at most risk_cap, in each engine.
C3_CostWithinCap == current_loss(q_T, q_F) <= risk_cap

\* C4 (as claimed): q_T >= 0 and q_F >= 0 in every reachable state.
C4_NoShorting == q_T >= 0 /\ q_F >= 0


\* C5 (as claimed): a sell declined because its solved dq exceeds the
\* outstanding shares leaves every market field as it was.
C5_NoShortSellLeavesNoTrace ==
  [][(last'.op = "sell" /\ last'.path = "no_shorting") => market' = market]_vars

\* C6: a buy declined for exhausted capacity or for a stake above the maximum
\* changes no market field and appends no Order.
C6_DeclinedBuyLeavesNoTrace ==
  [][(last'.op = "buy" /\ last'.path \in {"capacity_exhausted", "stake_exceeds_max"})
       => market' = market]_vars

C6_Witness ==
  /\ last.op = "buy"
  /\ last.path = "stake_exceeds_max"
  /\ last.stake > 0
  /\ Len(order_history) > 0


Unskewed == engine \in {"lmsr", "fixed_cap"}
PriceNow == price(q_T, q_F)

\* C8 (as claimed): in every reachable state of the unskewed engines the two
\* prices add up to exactly 1 and each lies in [0, 1].
C8_PriceSumExact ==
  Unskewed => /\ PriceNow.YES + PriceNow.NO = S
              /\ PriceNow.YES \in 0 .. S
              /\ PriceNow.NO \in 0 .. S

\* C8 (amended): in every reachable state of the unskewed engines the two
\* prices add up to 1 within one unit in the last place of the arithmetic,
\* and each lies in [0, 1].
C8_PriceSumWithinTolerance ==
  Unskewed => /\ Abs(PriceNow.YES + PriceNow.NO - S) <= 1
              /\ PriceNow.YES \in 0 .. S
              /\ PriceNow.NO \in 0 .. S

C8_Witness ==
  /\ Unskewed
  /\ last.path = "accepted"
  /\ q_T >= 0 /\ q_F >= 0 /\ q_T # q_F
  /\ PriceNow.YES + PriceNow.NO # S

\* C9 (as claimed): max_stake() is 0 whenever the cost excursion has reached
\* risk_cap, and an accepted buy that raises the cost excursion never makes
\* max_stake() larger.
C9_MaxStakeShrinks ==
  /\ []((Unskewed /\ current_loss(q_T, q_F) >= risk_cap) => max_stake(q_T, q_F) = 0)
  /\ [][(/\ Unskewed
         /\ last'.op = "buy" /\ last'.path = "accepted"
         /\ current_loss(q_T', q_F') > current_loss(q_T, q_F))
        => max_stake(q_T', q_F') <= max_stake(q_T, q_F)]_vars

\* C10: in an unresolved market with remaining risk, a buy of exactly
\* max_stake() on either side is accepted (an Order is returned and appended,
\* and a positive stake adds shares to that side), and a buy of
\* max_stake() + 1 is declined as exceeding the maximum.
SharesOf(side, qT, qF) == IF side = "YES" THEN qT ELSE qF

C10_MaxStakeIsTheBoundary ==
  [][(/\ Unskewed /\ ~resolved
      /\ remaining_risk(q_T, q_F) > 0
      /\ last'.op = "buy")
     => /\ last'.stake = max_stake(q_T, q_F)
             => /\ last'.path = "accepted"
                /\ ret'.kind = "Order" /\ ret'.stake = last'.stake
                /\ order_history' = Append(order_history, order_history'[Len(order_history')])
                /\ SharesOf(last'.side, q_T', q_F') >= SharesOf(last'.side, q_T, q_F)
                /\ last'.stake > 0
                     => SharesOf(last'.side, q_T', q_F') > SharesOf(last'.side, q_T, q_F)
        /\ last'.stake = max_stake(q_T, q_F) + U
             => /\ last'.path = "stake_exceeds_max"
                /\ market' = market]_vars

C10_Witness ==
  /\ Unskewed /\ ~resolved
  /\ last.op = "buy" /\ last.path = "accepted"
  /\ last.side = "NO"
  /\ last.stake > 0
  /\ Len(order_history) = 2
  /\ last.stake = order_history[2].stake + order_history[2].fees
  /\ last.stake > StakeHalf \div 4


\* C7: the check, the share update and the ledger update of a call run with
\* no other call in between: at most one thread is inside a call, whenever no
\* thread is inside a call the fields are those of the calls run one at a
\* time in lock order, and no two accepted trades passed their checks
\* against the same pre-trade fields.
Passed(t) == pc[t] \in {"shares", "ledger", "release", "done"} /\ local[t].r.path = "accepted"

C7_CallsAreAtomic ==
  /\ \A t, u \in Threads : (t # u /\ InCall(t)) => ~InCall(u)
  /\ (\A t \in Threads : ~InCall(t)) => Fields = serial
  /\ \A t, u \in Threads : (t # u /\ Passed(t) /\ Passed(u)) => local[t].pre # local[u].pre

C7_Witness ==
  \E t, u \in Threads :
    /\ t # u
    /\ pc[t] = "done" /\ pc[u] = "done"
    /\ local[t].op = "buy" /\ local[u].op = "buy"
    /\ local[t].stake = local[u].stake
    /\ local[t].r.path = "accepted"
    /\ local[u].r.path = "stake_exceeds_max"

\* the payout figure and the profit figure of a settlement, whichever of the
\* two resolve methods produced it
ReportedPayout(r) == IF r.kind = "report" THEN r.total_payout ELSE r.net_payout
ReportedPnl(r) == IF r.kind = "report" THEN r.net_pnl ELSE r.pnl

\* C11 (as claimed): a resolve that returns reports, to the cent,
\* total_payout = the winning side's outstanding shares, gross_pnl = deposits
\* minus that payout and net_pnl = gross_pnl + total_fees_collected, all taken
\* from the fields at the moment of the call.
C11_ResolveReportsFromShares ==
  [][(last'.op = "resolve" /\ last'.path = "resolved")
     => LET total_payout == IF last'.side = "YES" THEN q_T ELSE q_F
            gross_pnl == (yes_deposits + no_deposits) - total_payout
            net_pnl == gross_pnl + total_fees_collected
        IN  /\ round_figure(ReportedPayout(ret'), U) = round_figure(total_payout, U)
            /\ round_figure(ReportedPnl(ret'), U) = round_figure(net_pnl, U)
            /\ ret'.kind = "report" => ret'.gross_pnl = round_figure(gross_pnl, U)]_vars

\* C12: order_history only grows at its end: an accepted buy or sell appends
\* exactly one Order, every other call (declined, raising, resolve,
\* generate_quote, get_pnl) leaves it as it is.
C12_HistoryAppendOnly ==
  [][IF last'.path = "accepted"
     THEN /\ Len(order_history') = Len(order_history) + 1
          /\ SubSeq(order_history', 1, Len(order_history)) = order_history
          /\ order_history'[Len(order_history')].side = last'.side
     ELSE order_history' = order_history]_vars

C12_Witness ==
  /\ last.op = "sell" /\ last.path = "accepted"
  /\ Len(order_history) = 2
  /\ order_history[1].stake > 0 /\ order_history[2].stake < 0

\* the sum of one field over the orders of one side ("ANY": of both sides)
RECURSIVE SumOver(_, _, _)
SumOver(hist, side, field) ==
  IF hist = <<>> THEN 0
  ELSE LET o == hist[Len(hist)]
       IN  SumOver(SubSeq(hist, 1, Len(hist) - 1), side, field)
           + (IF side \in {"ANY", o.side} THEN o[field] ELSE 0)

DepositsAndCashoutsFold ==
  /\ yes_deposits = SumOver(order_history, "YES", "stake")
  /\ no_deposits = SumOver(order_history, "NO", "stake")
  /\ expected_yes_cashout = SumOver(order_history, "YES", "expected_cashout")
  /\ expected_no_cashout = SumOver(order_history, "NO", "expected_cashout")

\* (total_fees_collected is a field of lmsr.py only)
FeesFold == engine = "lmsr" => total_fees_collected = SumOver(order_history, "ANY", "fees")

\* C13 (as claimed): after any sequence of buy and sell calls the deposits,
\* the expected cashouts and total_fees_collected equal the sums of stake,
\* expected_cashout and fees over order_history.
C13_AggregatesFoldHistory == DepositsAndCashoutsFold /\ FeesFold

\* C14 (as claimed): total_fees_collected is never negative and no call makes
\* it smaller.
C14_FeesNeverDecrease ==
  /\ [](total_fees_collected >= 0)
  /\ [][total_fees_collected' >= total_fees_collected]_vars

\* C15 (as claimed): the Order of an accepted buy of a positive stake carries as expected_cashout
\* the shares the buy added to its side (rounded to 2 decimals), and the
\* side's expected cashout grows by that same figure, so that it tracks the
\* side's shares.
C15_CashoutIsSharesGranted ==
  [][(last'.op = "buy" /\ last'.path = "accepted" /\ last'.stake > 0)
     => LET delta_q == SharesOf(last'.side, q_T', q_F') - SharesOf(last'.side, q_T, q_F)
            granted == SharesOf(last'.side, expected_yes_cashout', expected_no_cashout')
                       - SharesOf(last'.side, expected_yes_cashout, expected_no_cashout)
        IN  /\ ret'.expected_cashout = round_figure(delta_q, U)
            /\ order_history'[Len(order_history')].expected_cashout = round_figure(delta_q, U)
            /\ granted = round_figure(delta_q, U)]_vars

RejectionPaths == {"capacity_exhausted", "stake_exceeds_max", "imbalance_limit", "no_shorting"}

\* C16 (as claimed): a buy or sell that is rejected returns a rejection value
\* that names its reason; it returns neither an Order nor nothing.
C16_RejectionsAreExplicit ==
  [][last'.path \in RejectionPaths
     => /\ ret'.kind \notin {"Order", "None"}
        /\ ret'.kind = "rejected"
        /\ ret'.reason = last'.path]_vars

Owned(side) == IF side = "YES" THEN yes_shares ELSE no_shares

\* C17 (as claimed): UserPortfolio.sell asked for more shares than the user
\* owns on that side fails before it calls the market: it raises, and the
\* market fields and the portfolio are as before.
C17_OversellFailsFirst ==
  [][(last'.op = "portfolio_sell" /\ last'.stake > Owned(last'.side))
     => /\ ret' = Raise("ValueError")
        /\ market' = market
        /\ portfolio' = portfolio]_vars

\* C17 (amended): UserPortfolio.sell asked for more than the owned shares plus
\* the tolerance of 1e-6 fails before it calls the market: it raises, and the
\* market fields and the portfolio are as before.
C17_OversellBeyondToleranceFailsFirst ==
  [][(last'.op = "portfolio_sell" /\ last'.stake > Owned(last'.side) + PortfolioEps)
     => /\ ret' = Raise("ValueError")
        /\ last'.path = "insufficient_shares"
        /\ market' = market
        /\ portfolio' = portfolio]_vars

C17_Witness ==
  /\ last.op = "portfolio_sell" /\ last.path = "insufficient_shares"
  /\ Owned(last.side) > 0
  /\ last.stake = Owned(last.side) + U
  /\ Len(order_history) > 0

\* C18 (as claimed): with fee rate 0, a YES buy on a fresh market (q_T = 0,
\* q_F = 0) followed at once by the sale of the shares that buy granted
\* brings q_T back to 0, within a hundredth of a share, and leaves q_F at 0.
C18_RoundTrip ==
  [][(/\ fee_rate = 0
      /\ calls = 1
      /\ last.op = "portfolio_buy" /\ last.side = "YES" /\ last.path = "accepted"
      /\ last'.op = "portfolio_sell" /\ last'.side = "YES"
      /\ last'.stake = ret.expected_cashout)
     => /\ Abs(q_T') <= U \div 100
        /\ q_F' = 0]_vars

\* price() of the market's own engine
EnginePrice(qT, qF) == IF engine = "strict_profit" THEN strict_price(qT, qF) ELSE price(qT, qF)

\* C19 (as claimed): an accepted buy of a positive stake makes the shares and
\* the marginal price of its side strictly larger and leaves the shares of
\* the other side as they were.
C19_BuyRaisesSide ==
  [][(last'.op = "buy" /\ last'.path = "accepted" /\ last'.stake > 0)
     => LET side == last'.side
            other == IF side = "YES" THEN "NO" ELSE "YES"
        IN  /\ SharesOf(side, q_T', q_F') > SharesOf(side, q_T, q_F)
            /\ EnginePrice(q_T', q_F')[side] > EnginePrice(q_T, q_F)[side]
            /\ SharesOf(other, q_T', q_F') = SharesOf(other, q_T, q_F)]_vars

\* C19 (amended): an accepted buy of a stake that the arithmetic does not
\* round away (here: of a dollar or more) makes the shares of its side
\* strictly larger and leaves the shares of the other side as they were; in
\* the engines that quote the raw LMSR price (lmsr.py, fixed_cap.py) it also
\* makes the marginal price of its side strictly larger.
C19_BuyRaisesSideUnskewedPrice ==
  [][(last'.op = "buy" /\ last'.path = "accepted" /\ last'.stake >= U)
     => LET side == last'.side
            other == IF side = "YES" THEN "NO" ELSE "YES"
        IN  /\ SharesOf(side, q_T', q_F') > SharesOf(side, q_T, q_F)
            /\ Unskewed => price(q_T', q_F')[side] > price(q_T, q_F)[side]
            /\ SharesOf(other, q_T', q_F') = SharesOf(other, q_T, q_F)]_vars

C19_Witness ==
  /\ Unskewed
  /\ last.op = "buy" /\ last.path = "accepted" /\ last.stake > 0
  /\ last.side = "NO"
  /\ Len(order_history) = 2
  /\ order_history[1].side = "YES" /\ order_history[1].stake > 0
  /\ q_T > 0 /\ q_F > 0

\* C20: generate_quote and get_pnl only read: whatever the state, a call of
\* either leaves the shares, the aggregates, order_history and the resolution
\* state as they were.
C20_ReadsLeaveNoTrace ==
  [][last'.op \in {"generate_quote", "get_pnl"}
     => /\ market' = market
        /\ resolved' = resolved
        /\ resolved_outcome' = resolved_outcome]_vars

C20_Witness ==
  /\ last.op \in {"generate_quote", "get_pnl"}
  /\ ret.kind \in {"Quote", "pnl"}
  /\ resolved
  /\ Len(order_history) > 0
  /\ q_T # q_F

\* C21 (as claimed): on a market created with zero initial shares, whatever
\* buys and sells were accepted, the market maker loses at most risk_cap at
\* resolution, whichever side wins: deposits minus the winning side's shares
\* is at least -risk_cap.
C21_LossWithinRiskCap ==
  /\ (yes_deposits + no_deposits) - q_T >= -risk_cap
  /\ (yes_deposits + no_deposits) - q_F >= -risk_cap

\* the bound as the claim states it: the solver's dq turned into a stake at
\* the price of the side that is bought
max_stake_at_own_price(qT, qF, side) ==
  LET base_cost == cost(qT, qF)
      rem == risk_cap - (base_cost - cost(0, 0))
      inc(dq) == cost(qT + dq, qF + dq) - base_cost
      high == Expand(inc, rem, U, Iterations)
      lh == Bisect(inc, rem, 0, high, Iterations)
      dq == (lh[1] + lh[2]) \div 2
      p_self == price(qT, qF)[side]
  IN  IF rem <= 0 THEN 0
      ELSE MulS(MulS(b, p_self), Exp(DivS(dq, b)) - S)

\* C22 (as claimed): the maximum a buy on a side is checked against is
\* b * p_side * (exp(dq/b) - 1) with p_side the current marginal price of that
\* same side: the buy is declined as exceeding the maximum exactly when its
\* stake is above that figure, for a NO buy as for a YES buy.
C22_BoundUsesOwnPrice ==
  [][(/\ Unskewed
      /\ last'.op = "buy"
      /\ last'.path \in {"accepted", "stake_exceeds_max"})
     => (last'.path = "stake_exceeds_max"
           <=> last'.stake > max_stake_at_own_price(q_T, q_F, last'.side))]_vars

\* C25: in the skew-priced engine (strict_profit.py), whatever skew_factor the
\* market was created with, the two quoted prices add up to 1 in every
\* reachable state, and whenever the skew adjustment applies (there are
\* outstanding shares) both prices lie in [0.01, 0.99].
C25_SkewedPricesOnSimplex ==
  engine = "strict_profit"
    => LET p == strict_price(q_T, q_F)
       IN  /\ p.YES + p.NO = S
           /\ q_T + q_F > Eps6
                => /\ p.YES >= PriceFloor /\ p.YES <= PriceCeil
                   /\ p.NO >= PriceFloor /\ p.NO <= PriceCeil

C25_Witness ==
  /\ engine = "strict_profit"
  /\ skew_factor > 0
  /\ last.op = "buy" /\ last.path = "accepted"
  /\ q_T > q_F /\ q_F > 0
  /\ price(q_T, q_F).YES > S \div 2
  /\ strict_price(q_T, q_F).YES = PriceFloor
  /\ strict_price(q_T, q_F).NO = PriceCeil

\* |q_yes - q_no| / (q_yes + q_no) > 0.2, without a division
ImbalanceAbove20(qT, qF) == qT + qF > 0 /\ 5 * Abs(qT - qF) > qT + qF
Heavier(side, qT, qF) == SharesOf(side, qT, qF) > SharesOf(IF side = "YES" THEN "NO" ELSE "YES", qT, qF)

\* C26: in the skew-limited engine (strict_profit.py), while the imbalance
\* |q_yes - q_no| / (q_yes + q_no) is above 0.2, a buy of a positive stake on
\* the side that has more shares is declined and changes nothing, and a buy of
\* a positive stake on the other side is accepted whenever the stake is at
\* most the remaining risk.
C26_DirectionalLimit ==
  [][(/\ engine = "strict_profit"
      /\ last'.op = "buy" /\ last'.stake > 0
      /\ ImbalanceAbove20(q_T, q_F))
     => IF Heavier(last'.side, q_T, q_F)
        THEN /\ last'.path \in RejectionPaths
             /\ ret' = ZeroOrder(last'.side)
             /\ market' = market
        ELSE last'.stake <= remaining_risk(q_T, q_F)
               => /\ last'.path = "accepted"
                  /\ ret'.kind = "Order" /\ ret'.stake = last'.stake
                  /\ Len(order_history') = Len(order_history) + 1
                  /\ SharesOf(last'.side, q_T', q_F') >= SharesOf(last'.side, q_T, q_F)]_vars

C26_Witness ==
  /\ engine = "strict_profit"
  /\ last.op = "buy" /\ last.path = "imbalance_limit" /\ last.stake > 0
  /\ ImbalanceAbove20(q_T, q_F)
  /\ Heavier(last.side, q_T, q_F)
  /\ Len(order_history) = 2
  /\ order_history[1].side = last.side
  /\ order_history[2].side # last.side
  /\ order_history[2].stake > 0

\* C27 (as claimed): a UserPortfolio.buy that the market rejects (capacity
\* exhausted, or stake above the maximum) leaves the portfolio as it was:
\* net_cash is not debited and no shares are credited.
C27_RejectedBuyLeavesPortfolio ==
  [][(/\ last'.op = "portfolio_buy"
      /\ last'.path \in {"capacity_exhausted", "stake_exceeds_max"})
     => portfolio' = portfolio]_vars

\* what the users hold in cash plus what the market holds in deposits and fees
CashBalance == net_cash + yes_deposits + no_deposits + total_fees_collected

\* C28 (as claimed): cash is conserved between the users and the market:
\* after any sequence of UserPortfolio.buy and UserPortfolio.sell calls,
\* accepted or rejected, net_cash + yes_deposits + no_deposits +
\* total_fees_collected is 0 (to within one unit of rounding per call).
C28_CashConserved == Abs(CashBalance) <= calls

\* C29 (as claimed): the Order an accepted buy or sell of a positive amount
\* returns is the record it appended to order_history: the same side, stake,
\* price, expected_cashout and fees, with the same signs.
C29_ReturnedOrderIsRecorded ==
  [][(last'.op \in {"buy", "sell"} /\ last'.path = "accepted" /\ last'.stake > 0)
     => ret' = order_history'[Len(order_history')]]_vars

\* the fields as they are between two trades: after the calls that have
\* taken the lock so far, or just before the one that holds it now
BetweenTrades ==
  {serial} \cup {local[t].pre : t \in {u \in Threads : pc[u] \in {"shares", "ledger", "release"}}}

\* C30 (as claimed): get_pnl called while other threads run buy or sell
\* reports a consistent snapshot: its figures are those of the fields as they
\* are between two trades, never of a trade whose share update is made and
\* whose deposit update is not.
C30_PnlSnapshotConsistent ==
  [][last'.op = "get_pnl"
     => \E m \in BetweenTrades : ret' = lmsr_get_pnl_on(m).ret]_vars

\* C24: no method calls, while it holds the market lock, a method that takes
\* the same lock (no thread ever waits for the lock it holds); the lock is
\* released on every way out of buy, sell, resolve and generate_quote, by
\* return, rejection or exception (a thread that is outside a call holds no
\* lock); hence every thread that waits for the lock gets through its call:
\* no thread blocks forever and the threads never deadlock.
C24_LockNeverBlocksForever ==
  /\ [](\A t \in Threads : pc[t] = "acquire" => lock # t)
  /\ [](\A t \in Threads : pc[t] \in {"idle", "settle", "done"} => lock # t)
  /\ \A t \in Threads : (pc[t] = "acquire") ~> (pc[t] = "done")

C24_Witness ==
  \E t, u \in Threads :
    /\ t # u
    /\ pc[t] = "done" /\ pc[u] = "done"
    /\ lock = 0
    /\ local[t].op = "buy" /\ local[t].r.path = "raised"
    /\ local[u].caller = "portfolio" /\ local[u].op = "sell"
    /\ local[u].r.path \in {"accepted", "no_shorting"}

\* C23: every call of max_stake, solve_delta_q, buy, sell, generate_quote and
\* resolve comes to its end: a bracket expansion never makes more than 60
\* doublings, a bisection has made exactly 60 halvings when it is left, also
\* when the bracket never reaches the target, and the call that has started
\* then returns or raises, with the market lock released.
C23_CallsTerminate ==
  /\ [](pc[LoopCaller] \in {"expand", "expand_test", "bisect", "bisect_test", "solved"}
          => local[LoopCaller].i <= Iterations /\ local[LoopCaller].j <= Iterations)
  /\ [](pc[LoopCaller] = "solved" => local[LoopCaller].j = Iterations)
  /\ [](pc[LoopCaller] = "done" => lock # LoopCaller)
  /\ (pc[LoopCaller] \in {"acquire", "check"}) ~> (pc[LoopCaller] = "done")

C23_Witness ==
  /\ pc[LoopCaller] = "done"
  /\ lock = 0
  /\ local[LoopCaller].op = "sell"
  /\ local[LoopCaller].loop = "cost_diff"
  /\ local[LoopCaller].i = Iterations
  /\ local[LoopCaller].j = Iterations
  /\ loop_value("cost_diff", "YES", local[LoopCaller].high) < local[LoopCaller].target

====
